---------------------------- MODULE Spec2Model ----------------------------
(***************************************************************************)
(* Model of the MSTR capital analyzer:                                     *)
(*   - LiquidationCalculator   (src/src/models/liquidation_calculator.py)  *)
(*   - create_ltv_heatmap      (src/src/visualizations/charts.py)          *)
(*   - parse_debt_data         (src/src/parsers/debt_parser.py)            *)
(*                                                                         *)
(* Numbers.  Python's numbers are modelled as exact rationals scaled by a  *)
(* power of ten, n/d * 10^e, in a canonical form (d coprime to 10, n not   *)
(* a multiple of 10, gcd(n,d) = 1) so that equal values are equal records. *)
(* Arithmetic is exact: the binary rounding of IEEE doubles is not         *)
(* modelled, so an equality proved here holds of the code "within floating *)
(* tolerance".                                                             *)
(***************************************************************************)
EXTENDS Integers, Sequences, FiniteSets, TLC

VARIABLES
    calc,      \* the LiquidationCalculator instance: its four attributes
    calc0,     \* the attributes as __init__ left them (history)
    ret,       \* the last call on the calculator: operation, argument, outcome
    sweep,     \* create_ltv_heatmap activations, one per thread
    doc,       \* the HTML document handed to parse_debt_data
    parsed,    \* the outcome of parse_debt_data on doc
    analyzer,  \* the MaturityAnalyzer instance: its debt_df
    now,       \* the wall clock, in quarter days
    prev       \* the analyzer call made before the last one

vars == <<calc, calc0, ret, sweep, doc, parsed, analyzer, now, prev>>

\* Python's None, as an argument left out
None == [none |-> TRUE]

IsNone(x) == x = None

-----------------------------------------------------------------------------
(* Exact decimal-scaled rationals                                          *)

Abs(x) == IF x < 0 THEN -x ELSE x

Min(a, b) == IF a <= b THEN a ELSE b

RECURSIVE GCD(_, _)
GCD(a, b) == IF b = 0 THEN a ELSE GCD(b, a % b)

RECURSIVE Pow10(_)
Pow10(k) == IF k = 0 THEN 1 ELSE 10 * Pow10(k - 1)

Zero == [n |-> 0, d |-> 1, e |-> 0]

\* n and d coprime, n # 0, d > 0: move every factor of ten into the exponent
RECURSIVE Norm10(_, _, _)
Norm10(n, d, e) ==
    IF n % 10 = 0 THEN Norm10(n \div 10, d, e + 1)
    ELSE IF d % 10 = 0 THEN Norm10(n, d \div 10, e - 1)
    ELSE IF d % 2 = 0 THEN Norm10(n * 5, d \div 2, e - 1)
    ELSE IF d % 5 = 0 THEN Norm10(n * 2, d \div 5, e - 1)
    ELSE [n |-> n, d |-> d, e |-> e]

\* the canonical form of n/d * 10^e, d > 0
Norm(n, d, e) ==
    IF n = 0 THEN Zero
    ELSE LET g == GCD(Abs(n), d) IN Norm10(n \div g, d \div g, e)

Num(n, d, e) == Norm(n, d, e)

Int2Num(i) == Norm(i, 1, 0)

One == Int2Num(1)

IsZero(a) == a.n = 0

Neg(a) == [a EXCEPT !.n = -a.n]

Mul(a, b) ==
    IF a.n = 0 \/ b.n = 0 THEN Zero
    ELSE LET g1 == GCD(Abs(a.n), b.d)
             g2 == GCD(Abs(b.n), a.d)
         IN  Norm((a.n \div g1) * (b.n \div g2), (a.d \div g2) * (b.d \div g1), a.e + b.e)

\* 1/a, a # 0
Inv(a) == IF a.n > 0 THEN Norm(a.d, a.n, -a.e) ELSE Norm(-a.d, -a.n, -a.e)

Add(a, b) ==
    IF a.n = 0 THEN b
    ELSE IF b.n = 0 THEN a
    ELSE LET e  == Min(a.e, b.e)
             an == a.n * Pow10(a.e - e)
             bn == b.n * Pow10(b.e - e)
             g  == GCD(a.d, b.d)
         IN  Norm(an * (b.d \div g) + bn * (a.d \div g), (a.d \div g) * b.d, e)

Sub(a, b) == Add(a, Neg(b))

Sign(a) == IF a.n > 0 THEN 1 ELSE IF a.n < 0 THEN -1 ELSE 0

Positive(a) == a.n > 0

Lt(a, b) == IF Sign(a) # Sign(b) THEN Sign(a) < Sign(b) ELSE Sub(a, b).n < 0

Le(a, b) == a = b \/ Lt(a, b)

\* floor(a * 10^k) and the remainder's position against one half, a >= 0,
\* by long division: <<quotient, cmp, remainder>> with cmp = -1, 0, 1 for a fractional
\* part below, at, above one half, and the remainder
RECURSIVE LongDiv(_, _, _, _)
LongDiv(q, r, d, m) ==
    IF m = 0 THEN <<q, IF 2 * r < d THEN -1 ELSE IF 2 * r = d THEN 0 ELSE 1, r>>
    ELSE LongDiv(q * 10 + ((r * 10) \div d), (r * 10) % d, d, m - 1)

Scaled(a, k) ==
    LET m == a.e + k
    IN  IF m >= 0 THEN LongDiv(a.n \div a.d, a.n % a.d, a.d, m)
        ELSE LET D == a.d * Pow10(-m)
             IN  LongDiv(a.n \div D, a.n % D, D, 0)

\* floor(a * 10^k), a >= 0
Floor10(a, k) == Scaled(a, k)[1]

\* a rounded to k decimals, ties to even (what a 'f' format does to a value)
RoundTo(a, k) ==
    IF a.d = 1 /\ a.e + k >= 0 THEN a
    ELSE LET s == Scaled([a EXCEPT !.n = Abs(a.n)], k)
             q == IF s[2] > 0 \/ (s[2] = 0 /\ s[1] % 2 = 1) THEN s[1] + 1 ELSE s[1]
         IN  Norm(IF a.n < 0 THEN -q ELSE q, 1, -k)

-----------------------------------------------------------------------------
(* Outcomes of a call: a returned value or a raised exception              *)

Ok(v) == [ok |-> TRUE, v |-> v]

Raise(x) == [ok |-> FALSE, exc |-> x]

\* IEEE specials a numpy float64 division yields instead of raising
Inf == [special |-> "inf"]

NaN == [special |-> "nan"]

IsSpecial(x) == x = Inf \/ x = NaN

\* Python's "x or y" on a number or None: y when x is None or zero
OrElse(x, y) == IF IsNone(x) THEN y ELSE IF IsZero(x) THEN y ELSE x

\* a / b: ZeroDivisionError for Python numbers; with a numpy float64 operand
\* (np) a zero divisor gives inf or nan and a warning, and nothing is raised
TrueDiv(a, b, np) ==
    IF IsZero(b)
    THEN IF np THEN Ok(IF IsZero(a) THEN NaN ELSE Inf) ELSE Raise("ZeroDivisionError")
    ELSE Ok(Mul(a, Inv(b)))

-----------------------------------------------------------------------------
(* LiquidationCalculator                                                   *)

Million == Num(1, 1, 6)

Hundred == Num(1, 1, 2)

\* __init__: total_debt and annual_interest arrive in millions
LiquidationCalculator(btc_holdings, btc_price, total_debt, annual_interest) ==
    [btc_holdings    |-> btc_holdings,
     btc_price       |-> btc_price,
     total_debt      |-> Mul(total_debt, Million),
     annual_interest |-> Mul(annual_interest, Million),
     total_debt_np   |-> FALSE]

calculate_btc_value(self, btc_price) ==
    LET price == OrElse(btc_price, self.btc_price)
    IN  Mul(self.btc_holdings, price)

\* calculate_ltv_ratio, price_np telling whether btc_price is a numpy float64
\* (then a btc_value computed from it is one too); holdings of None make
\* the product in calculate_btc_value a TypeError
ltv_ratio_typed(self, btc_price, price_np) ==
    LET btc_value == calculate_btc_value(self, btc_price)
        value_np  == price_np /\ ~IsNone(btc_price) /\ ~IsZero(btc_price)
    IN  IF IsNone(self.btc_holdings) THEN Raise("TypeError")
        ELSE TrueDiv(self.total_debt, btc_value, self.total_debt_np \/ value_np)

\* calculate_ltv_ratio called with a Python number or None
calculate_ltv_ratio(self, btc_price) == ltv_ratio_typed(self, btc_price, FALSE)

\* faulty variant (sensitivity of C1): the override price is not passed on
calculate_collateral_coverage_at_state_price(self, btc_price) ==
    LET ltv == calculate_ltv_ratio(self, None)
    IN  IF ~ltv.ok THEN ltv ELSE TrueDiv(One, ltv.v, self.total_debt_np)

\* 1 / ltv; the calculator's own callers hold a Python total_debt
calculate_collateral_coverage(self, btc_price) ==
    LET ltv == calculate_ltv_ratio(self, btc_price)
    IN  IF ~ltv.ok THEN ltv
        ELSE IF IsSpecial(ltv.v) THEN Ok(IF ltv.v = Inf THEN Zero ELSE NaN)
        ELSE TrueDiv(One, ltv.v, self.total_debt_np)

\* faulty variant (sensitivity of C2): debt / holdings * target_ltv
calculate_liquidation_price_unparenthesised(self, target_ltv) ==
    LET per_coin == TrueDiv(self.total_debt, self.btc_holdings, self.total_debt_np)
    IN  IF ~per_coin.ok THEN per_coin ELSE Ok(Mul(per_coin.v, target_ltv))

calculate_liquidation_price(self, target_ltv) ==
    TrueDiv(self.total_debt, Mul(self.btc_holdings, target_ltv), self.total_debt_np)

\* faulty variant (sensitivity of C3): the drop as a share of the
\* liquidation price instead of the current price
calculate_margin_of_safety_over_liq_price(self, target_ltv) ==
    LET liq_price == calculate_liquidation_price(self, target_ltv)
    IN  IF ~liq_price.ok THEN liq_price
        ELSE LET price_drop == Sub(self.btc_price, liq_price.v)
                 ratio      == TrueDiv(price_drop, liq_price.v, FALSE)
             IN  IF ~ratio.ok THEN ratio
                 ELSE LET current_ltv == calculate_ltv_ratio(self, None)
                      IN  IF ~current_ltv.ok THEN current_ltv
                          ELSE Ok([current_price      |-> self.btc_price,
                                   liquidation_price  |-> liq_price.v,
                                   price_drop_dollars |-> price_drop,
                                   price_drop_percent |-> Mul(ratio.v, Hundred),
                                   current_ltv        |-> current_ltv.v,
                                   target_ltv         |-> target_ltv])

\* faulty variant (sensitivity of C20): the drop taken from the liquidation
\* price down to the current price
calculate_margin_of_safety_reversed(self, target_ltv) ==
    LET liq_price == calculate_liquidation_price(self, target_ltv)
    IN  IF ~liq_price.ok THEN liq_price
        ELSE LET price_drop == Sub(liq_price.v, self.btc_price)
                 ratio      == TrueDiv(price_drop, self.btc_price, FALSE)
             IN  IF ~ratio.ok THEN ratio
                 ELSE LET current_ltv == calculate_ltv_ratio(self, None)
                      IN  IF ~current_ltv.ok THEN current_ltv
                          ELSE Ok([current_price      |-> self.btc_price,
                                   liquidation_price  |-> liq_price.v,
                                   price_drop_dollars |-> price_drop,
                                   price_drop_percent |-> Mul(ratio.v, Hundred),
                                   current_ltv        |-> current_ltv.v,
                                   target_ltv         |-> target_ltv])

calculate_margin_of_safety(self, target_ltv) ==
    LET liq_price == calculate_liquidation_price(self, target_ltv)
    IN  IF ~liq_price.ok THEN liq_price
        ELSE LET price_drop == Sub(self.btc_price, liq_price.v)
                 ratio      == TrueDiv(price_drop, self.btc_price, FALSE)
             IN  IF ~ratio.ok THEN ratio
                 ELSE LET current_ltv == calculate_ltv_ratio(self, None)
                      IN  IF ~current_ltv.ok THEN current_ltv
                          ELSE Ok([current_price      |-> self.btc_price,
                                   liquidation_price  |-> liq_price.v,
                                   price_drop_dollars |-> price_drop,
                                   price_drop_percent |-> Mul(ratio.v, Hundred),
                                   current_ltv        |-> current_ltv.v,
                                   target_ltv         |-> target_ltv])

calculate_interest_coverage(self, operating_income_annual) ==
    IF IsZero(self.annual_interest) THEN Ok(Inf)
    ELSE TrueDiv(Mul(operating_income_annual, Million), self.annual_interest, FALSE)

\* _get_status: the first matching band
get_status(ltv) ==
    IF Lt(ltv, Num(50, 1, -2)) THEN "Safe"
    ELSE IF Lt(ltv, Num(65, 1, -2)) THEN "Caution"
    ELSE IF Lt(ltv, Num(85, 1, -2)) THEN "Warning"
    ELSE "Danger"

\* the scenario list built at the top of stress_test_scenarios
Scenarios(current_price) ==
    << <<"Current", current_price>>,
       <<"-20%", Mul(current_price, Num(8, 1, -1))>>,
       <<"-30%", Mul(current_price, Num(7, 1, -1))>>,
       <<"-40%", Mul(current_price, Num(6, 1, -1))>>,
       <<"-50%", Mul(current_price, Num(5, 1, -1))>>,
       <<"-60%", Mul(current_price, Num(4, 1, -1))>>,
       <<"-70%", Mul(current_price, Num(3, 1, -1))>> >>

\* one row of the stress table, or the exception its computation raises;
\* a formatted cell is the number the format prints
ScenarioRow(self, name, price) ==
    LET ltv == calculate_ltv_ratio(self, price)
        cov == calculate_collateral_coverage(self, price)
        btc_value == calculate_btc_value(self, price)
    IN  IF ~ltv.ok THEN ltv
        ELSE IF ~cov.ok THEN cov
        ELSE Ok([Scenario |-> name,
                 BTCPrice |-> RoundTo(price, 0),
                 BTCHoldingsValueM |-> RoundTo(Mul(btc_value, Inv(Million)), 0),
                 LTVRatio |-> RoundTo(Mul(ltv.v, Hundred), 2),
                 CollateralCoverage |-> RoundTo(cov.v, 2),
                 Status |-> get_status(ltv.v)])

stress_test_scenarios(self) ==
    LET scenarios == Scenarios(self.btc_price)
        rows == [k \in 1..Len(scenarios) |->
                    ScenarioRow(self, scenarios[k][1], scenarios[k][2])]
    IN  IF \E k \in 1..Len(rows) : ~rows[k].ok
        THEN rows[CHOOSE k \in 1..Len(rows) :
                    ~rows[k].ok /\ \A j \in 1..(k - 1) : rows[j].ok]
        ELSE Ok([k \in 1..Len(rows) |-> rows[k].v])

-----------------------------------------------------------------------------
(* The calculator's callers: construction, then any sequence of calls      *)

HoldingsArgs == {Zero, Int2Num(100000), Int2Num(447470)}

PriceArgs == {Zero, Int2Num(20000), Int2Num(100000)}

DebtArgs ==
    {Zero, Int2Num(5000), Int2Num(5100), Int2Num(5200), Int2Num(8214), Int2Num(40000)}

InterestArgs == {Zero, Num(3458094, 1, -5)}

OverrideArgs == {None, Zero, Int2Num(50000), Int2Num(100000)}

TargetArgs == {Num(-5, 1, -1), Zero, Num(5, 1, -1), Num(85, 1, -2), One, Num(15, 1, -1)}

IncomeArgs == {Zero, Int2Num(100)}

Call(op, arg, out) == [op |-> op, arg |-> arg, out |-> out]

NoSweep == <<>>

NoDoc == [table |-> FALSE]

NotParsed == [state |-> "not parsed"]

NoAnalyzer == [constructed |-> FALSE]

\* the clock at midnight before 1 January 2024
Epoch == 0

NoCall == [op |-> "none"]

Init ==
    /\ \E h \in HoldingsArgs, p \in PriceArgs, d \in DebtArgs, a \in InterestArgs :
          calc = LiquidationCalculator(h, p, d, a)
    /\ calc0 = calc
    /\ ret = Call("__init__", None, Ok(None))
    /\ sweep = NoSweep
    /\ doc = NoDoc
    /\ parsed = NotParsed
    /\ analyzer = NoAnalyzer
    /\ now = Epoch
    /\ prev = NoCall

\* faulty variant (sensitivity of C4): the price used is stored on the object
Call_btc_value_storing_price ==
    /\ \E p \in OverrideArgs :
          /\ ret' = Call("calculate_btc_value", p, Ok(calculate_btc_value(calc, p)))
          /\ calc' = [calc EXCEPT !.btc_price = OrElse(p, calc.btc_price)]
    /\ UNCHANGED <<calc0, sweep, doc, parsed, analyzer, now, prev>>

Call_btc_value ==
    /\ \E p \in OverrideArgs :
          ret' = Call("calculate_btc_value", p, Ok(calculate_btc_value(calc, p)))
    /\ UNCHANGED <<calc, calc0, sweep, doc, parsed, analyzer, now, prev>>

Call_ltv_ratio ==
    /\ \E p \in OverrideArgs :
          ret' = Call("calculate_ltv_ratio", p, calculate_ltv_ratio(calc, p))
    /\ UNCHANGED <<calc, calc0, sweep, doc, parsed, analyzer, now, prev>>

Call_collateral_coverage ==
    /\ \E p \in OverrideArgs :
          ret' = Call("calculate_collateral_coverage", p,
                      calculate_collateral_coverage(calc, p))
    /\ UNCHANGED <<calc, calc0, sweep, doc, parsed, analyzer, now, prev>>

Call_liquidation_price ==
    /\ \E t \in TargetArgs :
          ret' = Call("calculate_liquidation_price", t,
                      calculate_liquidation_price(calc, t))
    /\ UNCHANGED <<calc, calc0, sweep, doc, parsed, analyzer, now, prev>>

\* a caller feeding the liquidation price back as the override price:
\* calc.calculate_ltv_ratio(calc.calculate_liquidation_price(t))
Call_ltv_at_liquidation_price ==
    /\ \E t \in TargetArgs :
          LET liq == calculate_liquidation_price(calc, t)
          IN  ret' = Call("ltv_at_liquidation_price", t,
                          IF liq.ok THEN calculate_ltv_ratio(calc, liq.v) ELSE liq)
    /\ UNCHANGED <<calc, calc0, sweep, doc, parsed, analyzer, now, prev>>

Call_margin_of_safety ==
    /\ \E t \in TargetArgs :
          ret' = Call("calculate_margin_of_safety", t,
                      calculate_margin_of_safety(calc, t))
    /\ UNCHANGED <<calc, calc0, sweep, doc, parsed, analyzer, now, prev>>

Call_interest_coverage ==
    /\ \E i \in IncomeArgs :
          ret' = Call("calculate_interest_coverage", i,
                      calculate_interest_coverage(calc, i))
    /\ UNCHANGED <<calc, calc0, sweep, doc, parsed, analyzer, now, prev>>

Call_stress_test_scenarios ==
    /\ ret' = Call("stress_test_scenarios", None, stress_test_scenarios(calc))
    /\ UNCHANGED <<calc, calc0, sweep, doc, parsed, analyzer, now, prev>>

Next ==
    \/ Call_btc_value
    \/ Call_ltv_ratio
    \/ Call_collateral_coverage
    \/ Call_liquidation_price
    \/ Call_ltv_at_liquidation_price
    \/ Call_margin_of_safety
    \/ Call_interest_coverage
    \/ Call_stress_test_scenarios

Spec == Init /\ [][Next]_vars

-----------------------------------------------------------------------------
(* Claims about the calculator                                             *)

\* the price a call with override p is meant to use
Effective(self, p) == IF IsNone(p) THEN self.btc_price ELSE p

\* C1: with holdings > 0 and total debt > 0, for every price p > 0, passed as
\* an override or taken from the state, calculate_collateral_coverage(p) and
\* calculate_ltv_ratio(p) both return and their product is exactly 1.
C1_CoverageIsReciprocalOfLtv ==
    (Positive(calc.btc_holdings) /\ Positive(calc.total_debt)) =>
        \A p \in OverrideArgs :
            Positive(Effective(calc, p)) =>
                LET cov == calculate_collateral_coverage(calc, p)
                    ltv == calculate_ltv_ratio(calc, p)
                IN  cov.ok /\ ltv.ok /\ Mul(cov.v, ltv.v) = One

\* a coverage call returned for an override price that differs from the
\* state's price, on a calculator with holdings and debt
C1_Witness ==
    /\ ret.op = "calculate_collateral_coverage"
    /\ ~IsNone(ret.arg)
    /\ Positive(ret.arg)
    /\ ret.arg # calc.btc_price
    /\ Positive(calc.btc_price)
    /\ Positive(calc.btc_holdings)
    /\ Positive(calc.total_debt)
    /\ ret.out.ok
    /\ ret.out.v # One

InUnitInterval(t) == Positive(t) /\ Le(t, One)

\* C2 as stated: with holdings > 0 and target_ltv in (0, 1], the LTV at the
\* liquidation price for target_ltv is target_ltv.
C2_RoundTripAnyDebt ==
    (/\ ret.op = "ltv_at_liquidation_price"
     /\ Positive(calc.btc_holdings)
     /\ InUnitInterval(ret.arg))
        => ret.out = Ok(ret.arg)

\* C2 amended: the round trip holds when, in addition, total debt > 0 (with
\* no debt the liquidation price is 0, which is no price to evaluate at).
C2_RoundTripPositiveDebt ==
    (/\ ret.op = "ltv_at_liquidation_price"
     /\ Positive(calc.btc_holdings)
     /\ Positive(calc.total_debt)
     /\ InUnitInterval(ret.arg))
        => ret.out = Ok(ret.arg)

C2_Witness ==
    /\ ret.op = "ltv_at_liquidation_price"
    /\ Positive(calc.btc_holdings)
    /\ Positive(calc.total_debt)
    /\ ret.arg = Num(85, 1, -2)
    /\ ret.out = Ok(ret.arg)
    /\ calculate_liquidation_price(calc, ret.arg).v # calc.btc_price

\* x is within one unit of the k-th decimal of v / 10^k, x >= 0
Approx(x, v, k) == Floor10(x, k) \in {v - 1, v}

\* the calculator of the __main__ example, margin of safety at 0.85 returned
ScenarioRun ==
    /\ \E a \in InterestArgs :
          calc = LiquidationCalculator(Int2Num(447470), Int2Num(100000), Int2Num(8214), a)
    /\ ret.op = "calculate_margin_of_safety"
    /\ ret.arg = Num(85, 1, -2)
    /\ ret.out.ok

ScenarioState ==
    /\ calc.total_debt = Num(8214, 1, 6)
    /\ calculate_btc_value(calc, None) = Num(44747, 1, 6)
    /\ Approx(calculate_ltv_ratio(calc, None).v, 1835, 4)
    /\ ret.out.v.current_ltv = calculate_ltv_ratio(calc, None).v

\* C3 as stated: in the scenario the total debt is 8,214,000,000, the BTC
\* value 44,747,000,000, the LTV about 0.1835, the liquidation price at 0.85
\* about 11,473 and the price drop about 88.5 percent.
C3_ScenarioAsStated ==
    ScenarioRun =>
        /\ ScenarioState
        /\ Approx(ret.out.v.liquidation_price, 11473, 0)
        /\ Approx(ret.out.v.price_drop_percent, 885, 1)

\* C3 amended: the same, with the liquidation price at 0.85 about 21,596
\* (8,214,000,000 / (447,470 * 0.85)) and the price drop about 78.4 percent.
C3_ScenarioAsComputed ==
    ScenarioRun =>
        /\ ScenarioState
        /\ Approx(ret.out.v.liquidation_price, 21596, 0)
        /\ Approx(ret.out.v.price_drop_percent, 784, 1)

C3_Witness ==
    /\ ScenarioRun
    /\ ret.out.v.current_price = Int2Num(100000)
    /\ ret.out.v.target_ltv = Num(85, 1, -2)

\* C4: after any sequence of calls of the calculator's methods, with any
\* arguments, its attributes are those __init__ gave it.
C4_CallsLeaveStateUnchanged == calc = calc0

\* a call with an override price has returned
C4_Witness ==
    /\ ret.op \in {"calculate_ltv_ratio", "calculate_collateral_coverage", "calculate_btc_value"}
    /\ ~IsNone(ret.arg)
    /\ Positive(ret.arg)
    /\ ret.arg # calc.btc_price
    /\ ret.out.ok
    /\ calc = calc0

\* C6: calculate_ltv_ratio raises ZeroDivisionError, and returns nothing,
\* whenever the holdings are zero or the effective price (the override when
\* one is passed, 0 included, else the state's price) is zero.
C6_ZeroHoldingsOrPriceRaises ==
    (/\ ret.op = "calculate_ltv_ratio"
     /\ (IsZero(calc.btc_holdings) \/ IsZero(Effective(calc, ret.arg))))
        => ret.out = Raise("ZeroDivisionError")

\* C7: calculate_liquidation_price raises InvalidParameter for every
\* target_ltv <= 0, and returns a price, total_debt / (holdings * target_ltv),
\* only for target_ltv in (0, 1].
C7_NonPositiveTargetRejected ==
    ret.op = "calculate_liquidation_price" =>
        /\ Le(ret.arg, Zero) => ret.out = Raise("InvalidParameter")
        /\ ret.out.ok =>
              /\ InUnitInterval(ret.arg)
              /\ Mul(ret.out.v, Mul(calc.btc_holdings, ret.arg)) = calc.total_debt

-----------------------------------------------------------------------------
(* create_ltv_heatmap, one activation per thread, on the shared calculator *)

Threads == {"t1", "t2"}

\* the model sweeps GridPrices x GridMultipliers points of the code's 20 x 15
GridPrices == 2

GridMultipliers == 2

\* np.linspace(lo, hi, n): n evenly spaced values, both ends included
linspace(lo, hi, n) ==
    [k \in 1..n |->
        IF n = 1 THEN lo
        ELSE Add(lo, Mul(Sub(hi, lo), Num(k - 1, n - 1, 0)))]

\* the ranges each thread's caller passes
PriceRangeArgs(t) ==
    IF t = "t1" THEN {<<Int2Num(50000), Int2Num(100000)>>, <<Zero, Int2Num(100000)>>}
    ELSE {<<Int2Num(50000), Int2Num(100000)>>}

DebtRangeArgs(t) ==
    IF t = "t1" THEN {<<Num(5, 1, -1), Int2Num(2)>>, <<One, One>>}
    ELSE {<<Num(5, 1, -1), Int2Num(2)>>}

IdleSweep ==
    [pc |-> "idle", btc_prices |-> <<>>, debt_multipliers |-> <<>>,
     original_debt |-> Zero, original_np |-> FALSE, i |-> 0, j |-> 0,
     ltv_matrix |-> <<>>]

\* lines 23-28: the grids, the zero matrix, and the read of calc.total_debt
create_ltv_heatmap_begin(t) ==
    /\ sweep[t].pc = "idle"
    /\ \E pr \in PriceRangeArgs(t), dr \in DebtRangeArgs(t) :
          sweep' = [sweep EXCEPT ![t] =
                      [pc |-> "set",
                       btc_prices |-> linspace(pr[1], pr[2], GridPrices),
                       debt_multipliers |-> linspace(dr[1], dr[2], GridMultipliers),
                       original_debt |-> calc.total_debt,
                       original_np |-> calc.total_debt_np,
                       i |-> 1, j |-> 1,
                       ltv_matrix |-> [c \in (1..GridMultipliers) \X (1..GridPrices) |-> Zero]]]
    /\ UNCHANGED <<calc, calc0, ret, doc, parsed, analyzer, now, prev>>

\* line 32: calc.total_debt = original_debt * debt_mult (a numpy float64)
create_ltv_heatmap_set_debt(t) ==
    /\ sweep[t].pc = "set"
    /\ calc' = [calc EXCEPT
                  !.total_debt = Mul(sweep[t].original_debt,
                                     sweep[t].debt_multipliers[sweep[t].i]),
                  !.total_debt_np = TRUE]
    /\ sweep' = [sweep EXCEPT ![t].pc = "ltv"]
    /\ UNCHANGED <<calc0, ret, doc, parsed, analyzer, now, prev>>

\* line 33: ltv_matrix[i, j] = calc.calculate_ltv_ratio(btc_price) * 100,
\* then the next cell; an exception leaves the function at once
create_ltv_heatmap_cell(t) ==
    /\ sweep[t].pc = "ltv"
    /\ LET s    == sweep[t]
           ltv  == ltv_ratio_typed(calc, s.btc_prices[s.j], TRUE)
           cell == IF IsSpecial(ltv.v) THEN ltv.v ELSE Mul(ltv.v, Hundred)
           last == s.i = GridMultipliers /\ s.j = GridPrices
       IN  sweep' = [sweep EXCEPT ![t] =
                IF ~ltv.ok THEN [s EXCEPT !.pc = "raised"]
                ELSE [s EXCEPT
                        !.ltv_matrix = [s.ltv_matrix EXCEPT ![<<s.i, s.j>>] = cell],
                        !.pc = IF last THEN "reset" ELSE "set",
                        !.i = IF s.j = GridPrices /\ ~last THEN s.i + 1 ELSE s.i,
                        !.j = IF last THEN s.j ELSE IF s.j = GridPrices THEN 1 ELSE s.j + 1]]
    /\ UNCHANGED <<calc, calc0, ret, doc, parsed, analyzer, now, prev>>

\* line 35: calc.total_debt = original_debt; lines 37-56 build the figure
create_ltv_heatmap_reset(t) ==
    /\ sweep[t].pc = "reset"
    /\ calc' = [calc EXCEPT !.total_debt = sweep[t].original_debt,
                            !.total_debt_np = sweep[t].original_np]
    /\ sweep' = [sweep EXCEPT ![t].pc = "done"]
    /\ UNCHANGED <<calc0, ret, doc, parsed, analyzer, now, prev>>

SweepHoldingsArgs == {Zero, Int2Num(447470)}

InitSweep ==
    /\ \E h \in SweepHoldingsArgs :
          calc = LiquidationCalculator(h, Int2Num(100000), Int2Num(8214), Zero)
    /\ calc0 = calc
    /\ ret = Call("__init__", None, Ok(None))
    /\ sweep = [t \in Threads |-> IdleSweep]
    /\ doc = NoDoc
    /\ parsed = NotParsed
    /\ analyzer = NoAnalyzer
    /\ now = Epoch
    /\ prev = NoCall

\* another thread reading the LTV off the same calculator
Reader_ltv_ratio ==
    /\ ret' = Call("calculate_ltv_ratio", None, calculate_ltv_ratio(calc, None))
    /\ UNCHANGED <<calc, calc0, sweep, doc, parsed, analyzer, now, prev>>

NextSweep ==
    \/ \E t \in Threads : create_ltv_heatmap_begin(t)
    \/ \E t \in Threads : create_ltv_heatmap_set_debt(t)
    \/ \E t \in Threads : create_ltv_heatmap_cell(t)
    \/ \E t \in Threads : create_ltv_heatmap_reset(t)
    \/ Reader_ltv_ratio

SpecSweep == InitSweep /\ [][NextSweep]_vars

-----------------------------------------------------------------------------
(* create_ltv_heatmap called alone: one activation, no other thread, and   *)
(* the calls that follow its exit                                          *)

\* the holdings of the calculator handed to the sweep; the constructor
\* stores whatever it is given
AloneHoldingsArgs == {None, Zero, Int2Num(447470)}

InitSweepAlone ==
    /\ \E h \in AloneHoldingsArgs, d \in DebtArgs :
          calc = LiquidationCalculator(h, Int2Num(100000), d, Zero)
    /\ calc0 = calc
    /\ ret = Call("__init__", None, Ok(None))
    /\ sweep = [t \in Threads |-> IdleSweep]
    /\ doc = NoDoc
    /\ parsed = NotParsed
    /\ analyzer = NoAnalyzer
    /\ now = Epoch
    /\ prev = NoCall

\* a call on the calculator after create_ltv_heatmap has returned or raised
Later_ltv_ratio ==
    /\ sweep["t1"].pc \in {"done", "raised"}
    /\ \E p \in OverrideArgs :
          ret' = Call("calculate_ltv_ratio", p, calculate_ltv_ratio(calc, p))
    /\ UNCHANGED <<calc, calc0, sweep, doc, parsed, analyzer, now, prev>>

NextSweepAlone ==
    \/ create_ltv_heatmap_begin("t1")
    \/ create_ltv_heatmap_set_debt("t1")
    \/ create_ltv_heatmap_cell("t1")
    \/ create_ltv_heatmap_reset("t1")
    \/ Later_ltv_ratio

SpecSweepAlone == InitSweepAlone /\ [][NextSweepAlone]_vars

-----------------------------------------------------------------------------
(* Claims about the sweep                                                  *)

\* the cells activation s has filled in so far
Filled(s) ==
    IF s.pc \in {"reset", "done"} THEN DOMAIN s.ltv_matrix
    ELSE IF s.pc \in {"set", "ltv", "raised"}
    THEN {c \in DOMAIN s.ltv_matrix : c[1] < s.i \/ (c[1] = s.i /\ c[2] < s.j)}
    ELSE {}

\* the LTV percentage of a calculator like self but owing mult times its debt
CellFor(self, mult, price) ==
    LET scaled == [self EXCEPT !.total_debt = Mul(self.total_debt, mult),
                               !.total_debt_np = TRUE]
        ltv    == ltv_ratio_typed(scaled, price, TRUE)
    IN  IF IsSpecial(ltv.v) THEN ltv.v ELSE Mul(ltv.v, Hundred)

\* C5: a sweep never changes shared state: at every point of it the
\* calculator's total_debt is its pre-sweep value, a calculate_ltv_ratio
\* call interleaved with sweeps returns the ratio for the original debt, and
\* every cell of every sweep holds the LTV for original_debt times its own
\* multiplier.
C5_SweepNeverMutatesSharedState ==
    /\ calc.total_debt = calc0.total_debt
    /\ ret.op = "calculate_ltv_ratio" => ret.out = calculate_ltv_ratio(calc0, ret.arg)
    /\ \A t \in Threads : \A c \in Filled(sweep[t]) :
          sweep[t].ltv_matrix[c] =
              CellFor(calc0, sweep[t].debt_multipliers[c[1]], sweep[t].btc_prices[c[2]])

-----------------------------------------------------------------------------
(* Text.  A str is the sequence of its characters; the texts of the model  *)
(* are written over digits, the punctuation " $,.%/-+", the em-dash and    *)
(* the letters T, B, D (none of which float() accepts).                    *)

Digits == <<"0", "1", "2", "3", "4", "5", "6", "7", "8", "9">>

IsDigit(c) == \E i \in DOMAIN Digits : Digits[i] = c

DigitVal(c) == (CHOOSE i \in DOMAIN Digits : Digits[i] = c) - 1

AllDigits(s) == \A i \in DOMAIN s : IsDigit(s[i])

\* int() of a string of digits
RECURSIVE NatOf(_)
NatOf(s) ==
    IF s = <<>> THEN 0
    ELSE NatOf(SubSeq(s, 1, Len(s) - 1)) * 10 + DigitVal(s[Len(s)])

\* str.strip()
RECURSIVE Strip(_)
Strip(s) ==
    IF s = <<>> THEN s
    ELSE IF s[1] = " " THEN Strip(Tail(s))
    ELSE IF s[Len(s)] = " " THEN Strip(SubSeq(s, 1, Len(s) - 1))
    ELSE s

\* re.sub(r'[chars]', '', s) and s.replace(char, ''): every occurrence goes
Remove(s, chars) == SelectSeq(s, LAMBDA c : c \notin chars)

\* float(s) for a str s: surrounding blanks dropped, an optional sign, then
\* digits with at most one point and at least one digit; anything else is a
\* ValueError.  (Exponents, inf, nan and underscores need characters the
\* model's texts do not have.)
Float(s) ==
    LET t          == Strip(s)
        signed     == t # <<>> /\ t[1] \in {"+", "-"}
        body       == IF signed THEN Tail(t) ELSE t
        points     == {i \in DOMAIN body : body[i] = "."}
        wellformed == /\ \A i \in DOMAIN body : IsDigit(body[i]) \/ body[i] = "."
                      /\ Cardinality(points) <= 1
                      /\ \E i \in DOMAIN body : IsDigit(body[i])
        decimals   == IF points = {} THEN 0
                      ELSE Len(body) - (CHOOSE i \in points : TRUE)
        v          == Num(NatOf(Remove(body, {"."})), 1, -decimals)
    IN  IF ~wellformed THEN Raise("ValueError")
        ELSE Ok(IF signed /\ t[1] = "-" THEN Neg(v) ELSE v)

\* a str value held in a cell of the frame
Text(s) == [text |-> s]

\* the one-character str of U+2014 EM DASH
EmDash == <<"U+2014">>

\* `not value_str or value_str == EM DASH`: None, the empty str, or the em-dash
IsAbsentText(value) == IsNone(value) \/ value.text = <<>> \/ value.text = EmDash

parse_currency(value_str) ==
    IF IsAbsentText(value_str) THEN Ok(None)
    ELSE Float(Remove(value_str.text, {"$", ","}))

parse_percentage(value_str) ==
    IF IsAbsentText(value_str) THEN Ok(None)
    ELSE Float(Remove(value_str.text, {"%"}))

IsLeap(year) == year % 4 = 0 /\ (year % 100 # 0 \/ year % 400 = 0)

DaysInMonth(year, month) ==
    IF month = 2 THEN (IF IsLeap(year) THEN 29 ELSE 28)
    ELSE IF month \in {4, 6, 9, 11} THEN 30
    ELSE 31

\* datetime.strptime(s, '%m/%d/%Y'): the whole of s must read as a month of
\* one or two digits in 1..12, a day of one or two digits in 1..31 (or a
\* blank and a digit), and a year of exactly four digits, with a slash
\* between them; the date must then exist (day within the month, year >= 1)
strptime_mdY(s) ==
    LET slashes == {i \in DOMAIN s : s[i] = "/"}
        i1      == CHOOSE i \in slashes : \A k \in slashes : i <= k
        i2      == CHOOSE i \in slashes : \A k \in slashes : k <= i
        mm      == SubSeq(s, 1, i1 - 1)
        dd      == SubSeq(s, i1 + 1, i2 - 1)
        yyyy    == SubSeq(s, i2 + 1, Len(s))
        dtext   == IF Len(dd) = 2 /\ dd[1] = " " THEN Tail(dd) ELSE dd
        month   == NatOf(mm)
        day     == NatOf(dtext)
        year    == NatOf(yyyy)
    IN  IF Cardinality(slashes) # 2 THEN Raise("ValueError")
        ELSE IF ~(Len(mm) \in {1, 2} /\ AllDigits(mm) /\ month \in 1..12)
        THEN Raise("ValueError")
        ELSE IF ~(Len(dtext) \in {1, 2} /\ AllDigits(dtext) /\ day \in 1..31
                  /\ (dtext # dd => day \in 1..9))
        THEN Raise("ValueError")
        ELSE IF ~(Len(yyyy) = 4 /\ AllDigits(yyyy)) THEN Raise("ValueError")
        ELSE IF year < 1 \/ day > DaysInMonth(year, month) THEN Raise("ValueError")
        ELSE Ok([year |-> year, month |-> month, day |-> day])

\* the ValueError of strptime is caught and answered with None
parse_date(date_str) ==
    IF IsAbsentText(date_str) THEN Ok(None)
    ELSE LET r == strptime_mdY(date_str.text)
         IN  IF r.ok THEN r ELSE Ok(None)

-----------------------------------------------------------------------------
(* parse_debt_data.  The document is what BeautifulSoup finds in it: a     *)
(* table or none, its thead and header cells, its tbody and rows.  A class *)
(* name is written as the sequence of its pieces, so that the text         *)
(* 'totalsRow' occurs in a class exactly when it is one of the pieces.     *)

Range(s) == {s[i] : i \in DOMAIN s}

Max(S) == CHOOSE x \in S : \A y \in S : y <= x

\* the columns parse_debt_data converts, in the order it converts them
Conversions ==
    << <<"Issue Date", "date">>, <<"Maturity", "date">>, <<"Put Date", "date">>,
       <<"Earliest Call Date", "date">>, <<"Price", "currency">>,
       <<"Coupon", "percentage">>, <<"Notional ($M)", "currency">>,
       <<"Market Val ($M)", "currency">>, <<"BTC Par", "currency">>,
       <<"Ref Price", "currency">>, <<"Conversion Price", "currency">> >>

\* Series.apply(parser) on one value
Apply(kind, value) ==
    CASE kind = "date"       -> parse_date(value)
      [] kind = "currency"   -> parse_currency(value)
      [] kind = "percentage" -> parse_percentage(value)

\* th.get('aria-label', th.get_text(strip=True))
HeaderLabel(th) == IF "aria-label" \in DOMAIN th.attrs THEN th.attrs["aria-label"] ELSE th.text

\* any('totalsRow' in cls for cls in tr.get('class', []))
IsTotalsRow(tr) == \E i \in DOMAIN tr.classes : "totalsRow" \in Range(tr.classes[i])

\* the loop over the body rows: totals rows and rows without cells are left out
RowsData(rows) ==
    LET kept == SelectSeq(rows, LAMBDA tr : ~IsTotalsRow(tr) /\ tr.cells # <<>>)
    IN  [r \in DOMAIN kept |-> [k \in DOMAIN kept[r].cells |-> Strip(kept[r].cells[k])]]

\* pd.DataFrame(rows_data, columns=headers): rows shorter than the longest
\* are filled up with None; a width other than the number of columns is a
\* ValueError ("N columns passed, passed data had M columns")
DataFrame(rows_data, columns) ==
    IF rows_data = <<>> THEN Ok([columns |-> columns, rows |-> <<>>])
    ELSE IF Max({Len(rows_data[r]) : r \in DOMAIN rows_data}) # Len(columns)
    THEN Raise("ValueError")
    ELSE Ok([columns |-> columns,
             rows    |-> [r \in DOMAIN rows_data |->
                            [k \in DOMAIN columns |->
                               IF k <= Len(rows_data[r]) THEN Text(rows_data[r][k])
                               ELSE None]]])

\* df[col] = df[col].apply(parser): KeyError without the column, and the
\* parser's exception, if it raises on a value, ends the statement
ApplyColumn(df, col, kind) ==
    LET k   == CHOOSE k \in DOMAIN df.columns : df.columns[k] = col
        res == [r \in DOMAIN df.rows |-> Apply(kind, df.rows[r][k])]
    IN  IF col \notin Range(df.columns) THEN Raise("KeyError")
        ELSE IF \E r \in DOMAIN res : ~res[r].ok THEN Raise("ValueError")
        ELSE Ok([df EXCEPT !.rows = [r \in DOMAIN df.rows |->
                                       [df.rows[r] EXCEPT ![k] = res[r].v]]])

\* the conversion statements from the i-th on
RECURSIVE Convert(_, _)
Convert(df, i) ==
    IF i > Len(Conversions) THEN Ok(df)
    ELSE LET r == ApplyColumn(df, Conversions[i][1], Conversions[i][2])
         IN  IF r.ok THEN Convert(r.v, i + 1) ELSE r

parse_debt_data(d) ==
    IF ~d.table THEN Raise("ValueError")
    ELSE IF d.thead = "absent" THEN Raise("AttributeError")
    ELSE IF d.thead = "no row" THEN Raise("AttributeError")
    ELSE IF ~d.tbody THEN Raise("AttributeError")
    ELSE LET headers == [k \in DOMAIN d.header |-> HeaderLabel(d.header[k])]
             df      == DataFrame(RowsData(d.rows), headers)
         IN  IF df.ok THEN Convert(df.v, 1) ELSE df

-----------------------------------------------------------------------------
(* The documents handed to the parser                                      *)

\* the columns of the debt table
Columns == <<"Name">> \o [i \in DOMAIN Conversions |-> Conversions[i][1]]

\* the columns a document may lack
DroppedColumns == {"Notional ($M)", "Maturity", "BTC Par", "Put Date"}

\* header cells either carry the column's name as aria-label over an
\* abbreviated visible text, or carry it as their text
HeaderStyles == {"aria-label", "text"}

HeaderCell(col, style) ==
    IF style = "aria-label"
    THEN [attrs |-> [a \in {"aria-label"} |-> col], text |-> "(abbreviated)"]
    ELSE [attrs |-> [a \in {"scope"} |-> "col"], text |-> col]

RowKinds ==
    {"bond", "dashes", "bad date", "bad currency", "bad percentage",
     "totals", "no cells", "short", "long"}

MaxRows == 3

\* the text of a well-formed cell of column col in the i-th body row
GoodText(col, i) ==
    CASE col = "Name"               -> <<"B", Digits[i + 1]>>
      [] col = "Issue Date"         -> <<"9", "/", "1", "6", "/", "2", "0", "2", "4">>
      [] col = "Maturity"           -> <<"1", "2", "/", "0", "1", "/", "2", "0", "2", "9">>
      [] col = "Put Date"           -> <<"6", "/", "1", "/", "2", "0", "2", "8">>
      [] col = "Earliest Call Date" -> <<"1", "2", "/", "4", "/", "2", "0", "2", "6">>
      [] col = "Price"              -> <<"$", "1", "0", "2", ".", "5">>
      [] col = "Coupon"             -> <<"0", ".", "6", "2", "5", "%">>
      [] col = "Notional ($M)"      -> <<" ", "1", ",", "0", "1", "0", " ">>
      [] col = "Market Val ($M)"    -> <<"1", ",", "0", "3", "5", ".", "2">>
      [] col = "BTC Par"            -> <<"8", ".", "5">>
      [] col = "Ref Price"          -> <<"$", "1", "8", "3">>
      [] col = "Conversion Price"   -> <<"$", "2", "3", "2", ".", "7">>

CellText(kind, col, i) ==
    IF kind = "dashes" /\ col \in {"Put Date", "Earliest Call Date", "Coupon", "BTC Par"}
    THEN EmDash
    ELSE IF kind = "bad date" /\ col = "Issue Date"
    THEN <<"2", "0", "2", "4", "-", "0", "9", "-", "1", "6">>
    ELSE IF kind = "bad currency" /\ col = "Price" THEN <<"T", "B", "D">>
    ELSE IF kind = "bad percentage" /\ col = "Coupon" THEN <<"T", "B", "D">>
    ELSE GoodText(col, i)

\* the i-th body row, for a table of columns cols
BodyRow(kind, i, cols) ==
    LET full == [k \in DOMAIN cols |-> CellText(kind, cols[k], i)]
    IN  [classes |-> CASE kind = "totals"   -> << <<"row">>, <<"DebtTable_", "totalsRow", "__x1">> >>
                       [] kind = "dashes"   -> << <<"subtotal", "Row">> >>
                       [] kind = "no cells" -> <<>>
                       [] OTHER             -> << <<"row">> >>,
         cells   |-> CASE kind = "no cells" -> <<>>
                       [] kind = "short"    -> SubSeq(full, 1, 1)
                       [] kind = "long"     -> Append(full, <<>>)
                       [] OTHER             -> full]

Document(thead, tbody, style, dropped, kinds) ==
    LET cols == SelectSeq(Columns, LAMBDA c : c # dropped)
    IN  [table  |-> TRUE,
         thead  |-> thead,
         tbody  |-> tbody,
         header |-> IF thead = "row" THEN [k \in DOMAIN cols |-> HeaderCell(cols[k], style)]
                    ELSE <<>>,
         rows   |-> [i \in DOMAIN kinds |-> BodyRow(kinds[i], i, cols)]]

RowKindSeqs == UNION {[1..n -> RowKinds] : n \in 0..MaxRows}

\* the documents whose body rows are of the kinds in one of kindseqs
Documents(kindseqs) ==
    {NoDoc}
    \cup {Document(th, tb, "aria-label", "", ks) :
             th \in {"absent", "no row", "row"}, tb \in BOOLEAN, ks \in kindseqs}
    \cup {Document("row", TRUE, st, dr, ks) :
             st \in HeaderStyles, dr \in DroppedColumns \cup {""}, ks \in kindseqs}

InitParse ==
    /\ calc = LiquidationCalculator(Int2Num(447470), Int2Num(100000), Int2Num(8214), Zero)
    /\ calc0 = calc
    /\ ret = Call("__init__", None, Ok(None))
    /\ sweep = NoSweep
    /\ doc \in Documents(RowKindSeqs)
    /\ parsed = NotParsed
    /\ analyzer = NoAnalyzer
    /\ now = Epoch
    /\ prev = NoCall

Call_parse_debt_data ==
    /\ parsed = NotParsed
    /\ parsed' = parse_debt_data(doc)
    /\ UNCHANGED <<calc, calc0, ret, sweep, doc, analyzer, now, prev>>

NextParse == Call_parse_debt_data

SpecParse == InitParse /\ [][NextParse]_vars

-----------------------------------------------------------------------------
(* Claims about the parser                                                 *)

HeaderLabels(d) == {HeaderLabel(d.header[k]) : k \in DOMAIN d.header}

\* a table with a header row and a body
HasTableHeaderAndBody(d) == d.table /\ d.thead = "row" /\ d.tbody

\* the body rows that are not totals rows and have at least one cell
SourceRows(d) == SelectSeq(d.rows, LAMBDA tr : ~IsTotalsRow(tr) /\ tr.cells # <<>>)

\* every such row has one cell for every header cell
RowsFitHeader(d) == \A r \in DOMAIN SourceRows(d) : Len(SourceRows(d)[r].cells) = Len(d.header)

\* the cell of row tr under the header cell labelled col
CellUnder(d, tr, col) ==
    tr.cells[CHOOSE k \in DOMAIN d.header : HeaderLabel(d.header[k]) = col]

\* the text converts to the type of its column
Converts(kind, text) == Apply(kind, Text(Strip(text))).ok

\* some typed cell of a source row does not convert
HasMalformedCell(d) ==
    \E r \in DOMAIN SourceRows(d) : \E i \in DOMAIN Conversions :
        /\ Conversions[i][1] \in HeaderLabels(d)
        /\ ~Converts(Conversions[i][2], CellUnder(d, SourceRows(d)[r], Conversions[i][1]))

\* the value a typed cell is to have in the output: converted, or absent
Expected(kind, text) ==
    IF Converts(kind, text) THEN Apply(kind, Text(Strip(text))).v ELSE None

\* C8: for every typed column (date, currency, percentage), a cell whose
\* text does not convert to the column's type is recorded as absent for that
\* field of that record and parse_debt_data still returns all non-totals
\* rows: on a table with header row, body, all columns and a cell per
\* column in every row, the parse returns one record per source row, each
\* typed field holding the converted value or, if its text does not convert,
\* the absent value.
C8_MalformedCellIsAbsentNotAbort ==
    (/\ parsed # NotParsed
     /\ HasTableHeaderAndBody(doc)
     /\ Range(Columns) \subseteq HeaderLabels(doc)
     /\ RowsFitHeader(doc))
    => /\ parsed.ok
       /\ Len(parsed.v.rows) = Len(SourceRows(doc))
       /\ \A r \in DOMAIN parsed.v.rows : \A i \in DOMAIN Conversions :
             LET k == CHOOSE k \in DOMAIN parsed.v.columns :
                          parsed.v.columns[k] = Conversions[i][1]
             IN  parsed.v.rows[r][k] =
                     Expected(Conversions[i][2],
                              CellUnder(doc, SourceRows(doc)[r], Conversions[i][1]))

\* the exception a field converter raises on a text it cannot convert
FieldLevelExceptions == {"ValueError"}

RequiredColumns == {"Notional ($M)", "Maturity"}

StructureFault(d) ==
    \/ ~d.table
    \/ d.thead # "row"
    \/ ~(RequiredColumns \subseteq HeaderLabels(d))

\* C9: parse_debt_data aborts with a structure failure, of a kind no
\* field-level error has, when the document has no table, the table has no
\* header row, or the Notional or Maturity column is missing from the
\* header; otherwise it reports records: a document with table, header row
\* and body whose cells all convert is parsed even if a column that is not
\* required (BTC Par, Put Date) is missing.
C9_StructureErrorsAndOnlyThose ==
    parsed # NotParsed =>
       /\ StructureFault(doc) => ~parsed.ok /\ parsed.exc \notin FieldLevelExceptions
       /\ (/\ ~StructureFault(doc)
           /\ doc.tbody
           /\ RowsFitHeader(doc)
           /\ ~HasMalformedCell(doc)) => parsed.ok

\* the Name column of the output, and the names of the source rows
OutputNames(df) == [r \in DOMAIN df.rows |-> df.rows[r][1]]

SourceNames(d) == [r \in DOMAIN SourceRows(d) |-> Text(Strip(SourceRows(d)[r].cells[1]))]

\* C10: no totals row (a class containing 'totalsRow') appears in the
\* parser's output, wherever it stands among the body rows, and every other
\* body row with at least one cell appears exactly once, in source order:
\* on a table with header row, body and all columns the parse returns
\* records whose names are the names of those rows, in their order.
C10_OutputIsTheNonTotalsRowsInOrder ==
    (/\ parsed # NotParsed
     /\ HasTableHeaderAndBody(doc)
     /\ Range(Columns) \subseteq HeaderLabels(doc))
    => /\ parsed.ok
       /\ OutputNames(parsed.v) = SourceNames(doc)

\* what does hold of the row loop: whenever the parse returns, its records
\* are the non-totals rows with cells, once each and in source order
RowsOfAReturnedParse ==
    (parsed # NotParsed /\ parsed.ok) => OutputNames(parsed.v) = SourceNames(doc)

-----------------------------------------------------------------------------
(* calculate_debt_metrics, on the frame parse_debt_data returns.  A column *)
(* holding at least one number is a float64 column whose absent values are *)
(* NaN; a column holding none stays of dtype object.                       *)

ColumnIndex(df, col) == CHOOSE k \in DOMAIN df.columns : df.columns[k] = col

\* df[col]: the values of the column, by row
Column(df, col) == [r \in DOMAIN df.rows |-> df.rows[r][ColumnIndex(df, col)]]

NotNa(x) == ~IsNone(x)

\* the column holds a present value
HoldsValue(values) == \E r \in DOMAIN values : NotNa(values[r])

RECURSIVE SumPresent(_)
SumPresent(values) ==
    IF values = <<>> THEN Zero
    ELSE LET rest == SumPresent(SubSeq(values, 1, Len(values) - 1))
             last == values[Len(values)]
         IN  IF NotNa(last) THEN Add(rest, last) ELSE rest

\* Series.sum(): absent values are skipped; the sum of a float64 column is
\* a numpy float64 (np), that of an object column is the Python int 0
SeriesSum(values) == [v |-> SumPresent(values), np |-> HoldsValue(values)]

\* Series * Series: absent where either factor is
SeriesMul(a, b) ==
    [r \in DOMAIN a |-> IF NotNa(a[r]) /\ NotNa(b[r]) THEN Mul(a[r], b[r]) ELSE None]

\* the dtypes the product of two columns can have: float64 (np) for two
\* float64 columns, object for two object columns; the product of a float64
\* column and an object column is float64 or object with the pandas version
ProductDtypes(a, b) ==
    IF HoldsValue(a) /\ HoldsValue(b) THEN {TRUE}
    ELSE IF ~HoldsValue(a) /\ ~HoldsValue(b) THEN {FALSE}
    ELSE BOOLEAN

\* (df[col] * df['Notional ($M)']).sum() / df['Notional ($M)'].sum(): the
\* outcomes it can have
WeightedAverage(df, col) ==
    LET values   == Column(df, col)
        notional == Column(df, "Notional ($M)")
        num      == SumPresent(SeriesMul(values, notional))
        den      == SeriesSum(notional)
    IN  {TrueDiv(num, den.v, num_np \/ den.np) : num_np \in ProductDtypes(values, notional)}

DateLe(a, b) ==
    \/ a.year < b.year
    \/ a.year = b.year /\ a.month < b.month
    \/ a.year = b.year /\ a.month = b.month /\ a.day <= b.day

\* Series.min() and Series.max() of a date column: over the present dates,
\* and the absent value (NaT) when there is none
SeriesMin(values) ==
    IF ~HoldsValue(values) THEN None
    ELSE LET present == {values[r] : r \in {r \in DOMAIN values : NotNa(values[r])}}
         IN  CHOOSE d \in present : \A e \in present : DateLe(d, e)

SeriesMax(values) ==
    IF ~HoldsValue(values) THEN None
    ELSE LET present == {values[r] : r \in {r \in DOMAIN values : NotNa(values[r])}}
         IN  CHOOSE d \in present : \A e \in present : DateLe(e, d)

\* the outcomes calculate_debt_metrics(df) can have
calculate_debt_metrics(df) ==
    {IF ~coupon.ok THEN coupon
     ELSE IF ~conversion.ok THEN conversion
     ELSE Ok([total_notional                |-> SumPresent(Column(df, "Notional ($M)")),
              total_market_value            |-> SumPresent(Column(df, "Market Val ($M)")),
              weighted_avg_coupon           |-> coupon.v,
              weighted_avg_conversion_price |-> conversion.v,
              num_bonds                     |-> Len(df.rows),
              nearest_maturity              |-> SeriesMin(Column(df, "Maturity")),
              furthest_maturity             |-> SeriesMax(Column(df, "Maturity"))]) :
        coupon \in WeightedAverage(df, "Coupon"),
        conversion \in WeightedAverage(df, "Conversion Price")}

-----------------------------------------------------------------------------
(* The frames handed to calculate_debt_metrics                             *)

MaxBonds == 2

CouponArgs == {None, Zero, Num(625, 1, -3), Num(225, 1, -2)}

NotionalArgs == {None, Zero, Int2Num(1010), Int2Num(3000)}

\* the parsed row of the i-th bond: its maturity, when present, is the
\* first of December of the i-th year after 2027
BondRow(i, coupon, notional, matures) ==
    [k \in DOMAIN Columns |->
        CASE Columns[k] = "Name"             -> Text(<<"B", Digits[i + 1]>>)
          [] Columns[k] = "Issue Date"       -> [year |-> 2024, month |-> 9, day |-> 16]
          [] Columns[k] = "Maturity"         ->
                 IF matures THEN [year |-> 2027 + i, month |-> 12, day |-> 1] ELSE None
          [] Columns[k] = "Coupon"           -> coupon
          [] Columns[k] = "Notional ($M)"    -> notional
          [] Columns[k] = "Price"            -> Num(1025, 1, -1)
          [] Columns[k] = "Market Val ($M)"  -> Num(10352, 1, -1)
          [] Columns[k] = "Conversion Price" -> Num(2327, 1, -1)
          [] OTHER                           -> None]

BondArgs == CouponArgs \X NotionalArgs \X BOOLEAN

\* the frames of n bonds
Frames(n) ==
    {[columns |-> Columns,
      rows    |-> [i \in 1..n |-> BondRow(i, bonds[i][1], bonds[i][2], bonds[i][3])]] :
        bonds \in [1..n -> BondArgs]}

InitMetrics ==
    /\ calc = LiquidationCalculator(Int2Num(447470), Int2Num(100000), Int2Num(8214), Zero)
    /\ calc0 = calc
    /\ ret = Call("__init__", None, Ok(None))
    /\ sweep = NoSweep
    /\ doc = NoDoc
    /\ \E n \in 0..MaxBonds : \E df \in Frames(n) : parsed = Ok(df)
    /\ analyzer = NoAnalyzer
    /\ now = Epoch
    /\ prev = NoCall

Call_calculate_debt_metrics ==
    /\ ret.op = "__init__"
    /\ \E out \in calculate_debt_metrics(parsed.v) :
          ret' = Call("calculate_debt_metrics", None, out)
    /\ UNCHANGED <<calc, calc0, sweep, doc, parsed, analyzer, now, prev>>

NextMetrics == Call_calculate_debt_metrics

SpecMetrics == InitMetrics /\ [][NextMetrics]_vars

-----------------------------------------------------------------------------
(* Claims about calculate_debt_metrics                                     *)

\* the rows in which coupon and notional are both present
WithCouponAndNotional(df) ==
    {r \in DOMAIN df.rows :
        NotNa(Column(df, "Coupon")[r]) /\ NotNa(Column(df, "Notional ($M)")[r])}

\* the column restricted to the rows in rs: absent elsewhere
Only(values, rs) == [r \in DOMAIN values |-> IF r \in rs THEN values[r] ELSE None]

\* the sum of the notionals of the rows with coupon and notional
ContributingNotional(df) ==
    SumPresent(Only(Column(df, "Notional ($M)"), WithCouponAndNotional(df)))

\* metrics were returned for a frame whose weighted-average coupon is defined
CouponAverageDefined ==
    /\ ret.op = "calculate_debt_metrics"
    /\ Positive(ContributingNotional(parsed.v))

\* C11: weighted_avg_coupon is the sum of coupon * notional over the sum of
\* notional, both sums over exactly the records with coupon and notional
\* present: a record with a notional but no coupon adds to neither sum.
C11_WeightedCouponOverRecordsWithBoth ==
    CouponAverageDefined =>
        /\ ret.out.ok
        /\ ret.out.v.weighted_avg_coupon =
              Mul(SumPresent(SeriesMul(Column(parsed.v, "Coupon"),
                                       Column(parsed.v, "Notional ($M)"))),
                  Inv(ContributingNotional(parsed.v)))

\* C12: whenever the weighted-average coupon is defined it lies between the
\* least and the greatest coupon of the records contributing to it (those
\* with coupon and notional present), also when other records lack a coupon
\* or a notional.
C12_WeightedCouponWithinCouponRange ==
    CouponAverageDefined =>
        /\ ret.out.ok
        /\ \E r \in WithCouponAndNotional(parsed.v) :
              Le(Column(parsed.v, "Coupon")[r], ret.out.v.weighted_avg_coupon)
        /\ \E r \in WithCouponAndNotional(parsed.v) :
              Le(ret.out.v.weighted_avg_coupon, Column(parsed.v, "Coupon")[r])

\* C13: when the notionals sum to zero, or no record has a maturity date,
\* calculate_debt_metrics raises an error and returns no metrics (so no
\* zero, null or NaN stands for the missing value).
C13_NoEligibleInputIsAnError ==
    (/\ ret.op = "calculate_debt_metrics"
     /\ \/ IsZero(SumPresent(Column(parsed.v, "Notional ($M)")))
        \/ ~HoldsValue(Column(parsed.v, "Maturity")))
        => ~ret.out.ok

-----------------------------------------------------------------------------
(* Time.  An instant is a number of quarter days since midnight before     *)
(* 1 January 2024: a day is 4 of them and timedelta(days=365.25) is 1461.  *)

RECURSIVE DaysBeforeYear(_)
DaysBeforeYear(year) ==
    IF year <= 2024 THEN 0
    ELSE DaysBeforeYear(year - 1) + (IF IsLeap(year - 1) THEN 366 ELSE 365)

RECURSIVE DaysBeforeMonth(_, _)
DaysBeforeMonth(year, month) ==
    IF month = 1 THEN 0
    ELSE DaysBeforeMonth(year, month - 1) + DaysInMonth(year, month - 1)

\* the instant of midnight at the start of the date (pd.to_datetime of it)
Timestamp(date) ==
    4 * (DaysBeforeYear(date.year) + DaysBeforeMonth(date.year, date.month) + date.day - 1)

\* ((date - t).dt.days / 365.25).round(2), absent for an absent date
YearsFrom(t, date) ==
    IF IsNone(date) THEN None
    ELSE RoundTo(Num(((Timestamp(date) - t) \div 4) * 4, 1461, 0), 2)

-----------------------------------------------------------------------------
(* MaturityAnalyzer                                                        *)

\* df[cols]: the frame of the columns cols
Select(df, cols) ==
    [columns |-> cols,
     rows    |-> [r \in DOMAIN df.rows |->
                    [k \in DOMAIN cols |-> df.rows[r][ColumnIndex(df, cols[k])]]]]

\* the order of sort_values on a date column: ascending, absent dates last
SortsBefore(a, b) ==
    IF IsNone(b) THEN TRUE
    ELSE IF IsNone(a) THEN FALSE
    ELSE Timestamp(a) <= Timestamp(b)

\* row put into rows, which are sorted on column k, behind the rows that
\* sort before it or equal to it
RECURSIVE Insert(_, _, _)
Insert(rows, row, k) ==
    IF rows = <<>> THEN <<row>>
    ELSE IF SortsBefore(Head(rows)[k], row[k])
    THEN <<Head(rows)>> \o Insert(Tail(rows), row, k)
    ELSE <<row>> \o rows

RECURSIVE SortRows(_, _)
SortRows(rows, k) ==
    IF rows = <<>> THEN rows
    ELSE Insert(SortRows(SubSeq(rows, 1, Len(rows) - 1), k), rows[Len(rows)], k)

\* df.sort_values(col); rows of equal dates keep their order
sort_values(df, col) == [df EXCEPT !.rows = SortRows(df.rows, ColumnIndex(df, col))]

MaturityAnalyzer(debt_df) ==
    [constructed |-> TRUE, debt_df |-> sort_values(debt_df, "Maturity")]

ScheduleColumns ==
    <<"Name", "Maturity", "Notional ($M)", "Coupon", "Put Date",
      "Years to Maturity", "Years to Put">>

\* get_maturity_schedule with pd.Timestamp.now() reading t
get_maturity_schedule(self, t) ==
    LET schedule == Select(self.debt_df, SubSeq(ScheduleColumns, 1, 5))
    IN  [columns |-> ScheduleColumns,
         rows    |-> [r \in DOMAIN schedule.rows |->
                        schedule.rows[r]
                            \o <<YearsFrom(t, Column(schedule, "Maturity")[r]),
                                 YearsFrom(t, Column(schedule, "Put Date")[r])>>]]

\* the elements of a set of integers in ascending order
RECURSIVE Ascending(_)
Ascending(S) ==
    IF S = {} THEN <<>>
    ELSE LET least == CHOOSE x \in S : \A y \in S : x <= y
         IN  <<least>> \o Ascending(S \ {least})

\* faulty variant (sensitivity of C16): the percentages are taken of the
\* notional of every bond of the schedule, the undated ones included
calculate_maturity_wall_of_all_notional(self, t) ==
    LET schedule == get_maturity_schedule(self, t)
        maturity == Column(schedule, "Maturity")
        notional == Column(schedule, "Notional ($M)")
        name     == Column(schedule, "Name")
        group(y) == {r \in DOMAIN schedule.rows : NotNa(maturity[r]) /\ maturity[r].year = y}
        years    == Ascending({maturity[r].year : r \in {r \in DOMAIN maturity : NotNa(maturity[r])}})
        sum(y)   == SumPresent(Only(notional, group(y)))
        total    == SumPresent(notional)
        share(y) == TrueDiv(sum(y), total, TRUE).v
    IN  [i \in DOMAIN years |->
            [year       |-> years[i],
             notional   |-> sum(years[i]),
             number     |-> Cardinality({r \in group(years[i]) : NotNa(name[r])}),
             percentage |-> IF IsSpecial(share(years[i])) THEN share(years[i])
                            ELSE RoundTo(Mul(share(years[i]), Hundred), 1)]]

\* calculate_maturity_wall with the clock reading t: one row per maturity
\* year in ascending order (groupby leaves the rows without a year out)
calculate_maturity_wall(self, t) ==
    LET schedule == get_maturity_schedule(self, t)
        maturity == Column(schedule, "Maturity")
        notional == Column(schedule, "Notional ($M)")
        name     == Column(schedule, "Name")
        group(y) == {r \in DOMAIN schedule.rows : NotNa(maturity[r]) /\ maturity[r].year = y}
        years    == Ascending({maturity[r].year : r \in {r \in DOMAIN maturity : NotNa(maturity[r])}})
        sum(y)   == SumPresent(Only(notional, group(y)))
        sums     == [i \in DOMAIN years |-> sum(years[i])]
        total    == SumPresent(sums)
        share(y) == TrueDiv(sum(y), total, TRUE).v
    IN  [i \in DOMAIN years |->
            [year       |-> years[i],
             notional   |-> sum(years[i]),
             number     |-> Cardinality({r \in group(years[i]) : NotNa(name[r])}),
             percentage |-> IF IsSpecial(share(years[i])) THEN share(years[i])
                            ELSE RoundTo(Mul(share(years[i]), Hundred), 1)]]

\* the price above which a bond with a conversion price is taken to convert
ReferencePrice == Int2Num(50000)

RiskColumns ==
    <<"Name", "Maturity", "Notional ($M)", "Status", "Cash Requirement ($M)",
      "Years to Maturity">>

\* faulty variant (sensitivity of C17): the reference price itself converts
InTheMoney_at_or_above(conversion_price, btc_price_at_maturity) ==
    NotNa(conversion_price) /\ Le(ReferencePrice, btc_price_at_maturity)

\* schedule['Conversion Price'].notna() & (btc_price_at_maturity > 50000)
InTheMoney(conversion_price, btc_price_at_maturity) ==
    NotNa(conversion_price) /\ Lt(ReferencePrice, btc_price_at_maturity)

\* the value under column col of the first row of df named name, absent if
\* there is none (a left merge on 'Name' of frames with distinct names)
Lookup(df, name, col) ==
    LET rs == {r \in DOMAIN df.rows : Column(df, "Name")[r] = name}
    IN  IF rs = {} THEN None ELSE Column(df, col)[CHOOSE r \in rs : \A q \in rs : r <= q]

\* the sequences of a sequence, one after the other
RECURSIVE Concat(_)
Concat(seqs) == IF seqs = <<>> THEN <<>> ELSE Head(seqs) \o Concat(Tail(seqs))

\* left.merge(right, on=on, how='left'): every row of left, in its order,
\* once for each row of right with its key (in the order of right) and
\* followed by that row's other values; once, followed by absent values,
\* if right has no row with its key
merge(left, right, on) ==
    LET kl        == ColumnIndex(left, on)
        kr        == ColumnIndex(right, on)
        others    == SelectSeq([k \in DOMAIN right.columns |-> k], LAMBDA k : k # kr)
        rest(row) == [k \in DOMAIN others |-> row[others[k]]]
        found(r)  == SelectSeq(right.rows, LAMBDA row : row[kr] = left.rows[r][kl])
        joined(r) == IF found(r) = <<>>
                     THEN <<left.rows[r] \o [k \in DOMAIN others |-> None]>>
                     ELSE [m \in DOMAIN found(r) |-> left.rows[r] \o rest(found(r)[m])]
    IN  [columns |-> left.columns \o [k \in DOMAIN others |-> right.columns[others[k]]],
         rows    |-> Concat([r \in DOMAIN left.rows |-> joined(r)])]

\* assess_refinancing_risk with the clock reading t; the statuses are
\* written without their leading pictograph
assess_refinancing_risk(self, btc_price_at_maturity, t) ==
    LET schedule == merge(get_maturity_schedule(self, t),
                          Select(self.debt_df, <<"Name", "Conversion Price">>),
                          "Name")
        itm(r)   == InTheMoney(Column(schedule, "Conversion Price")[r],
                               btc_price_at_maturity)
    IN  [columns |-> RiskColumns,
         rows    |-> [r \in DOMAIN schedule.rows |->
                        <<Column(schedule, "Name")[r],
                          Column(schedule, "Maturity")[r],
                          Column(schedule, "Notional ($M)")[r],
                          Text(IF itm(r) THEN "Likely Converts" ELSE "Needs Refinancing"),
                          IF itm(r) THEN Zero ELSE Column(schedule, "Notional ($M)")[r],
                          Column(schedule, "Years to Maturity")[r]>>]]

\* the rows of the schedule maturing by the cutoff, the clock reading t
MaturingSoon(schedule, years_ahead, t) ==
    {r \in DOMAIN schedule.rows :
        /\ NotNa(Column(schedule, "Maturity")[r])
        /\ Timestamp(Column(schedule, "Maturity")[r]) <= t + years_ahead * 1461}

\* calculate_rollover_requirement: the clock reads t1 for the schedule and
\* t2 for the cutoff
calculate_rollover_requirement(self, years_ahead, t1, t2) ==
    LET schedule == get_maturity_schedule(self, t1)
        notional == Column(schedule, "Notional ($M)")
        maturing == SumPresent(Only(notional, MaturingSoon(schedule, years_ahead, t2)))
        share    == TrueDiv(maturing, SumPresent(notional), HoldsValue(notional))
    IN  IF ~share.ok THEN share
        ELSE Ok([total_maturing      |-> maturing,
                 number_of_bonds     |-> Cardinality(MaturingSoon(schedule, years_ahead, t2)),
                 years_analyzed      |-> years_ahead,
                 percentage_of_total |-> IF IsSpecial(share.v) THEN share.v
                                         ELSE Mul(share.v, Hundred)])

-----------------------------------------------------------------------------
(* The analyzer's callers: construction on a parsed frame, then calls,     *)
(* while the wall clock advances                                           *)

MaxScheduled == 3

\* notional and conversion price of a bond
FaceArgs == {<<Int2Num(1010), Num(2327, 1, -1)>>, <<Zero, None>>}

\* its maturity: absent, the first of December of a year of its own (later
\* rows mature earlier), or 15 March 2028
MaturityKinds == {"absent", "own", "march"}

MaturityOf(kind, i) ==
    CASE kind = "absent" -> None
      [] kind = "own"    -> [year |-> 2030 - i, month |-> 12, day |-> 1]
      [] kind = "march"  -> [year |-> 2028, month |-> 3, day |-> 15]

ScheduledRow(i, kind, face) ==
    [k \in DOMAIN Columns |->
        CASE Columns[k] = "Name"             -> Text(<<"B", Digits[i + 1]>>)
          [] Columns[k] = "Issue Date"       -> [year |-> 2024, month |-> 9, day |-> 16]
          [] Columns[k] = "Maturity"         -> MaturityOf(kind, i)
          [] Columns[k] = "Coupon"           -> Num(625, 1, -3)
          [] Columns[k] = "Notional ($M)"    -> face[1]
          [] Columns[k] = "Price"            -> Num(1025, 1, -1)
          [] Columns[k] = "Market Val ($M)"  -> Num(10352, 1, -1)
          [] Columns[k] = "Conversion Price" -> face[2]
          [] OTHER                           -> None]

\* the parsed frames of n bonds
ScheduledFrames(n) ==
    {[columns |-> Columns,
      rows    |-> [i \in 1..n |-> ScheduledRow(i, bonds[i][1], bonds[i][2])]] :
        bonds \in [1..n -> MaturityKinds \X FaceArgs]}

\* the readings of the clock: midnight of 4 November 2026, noon of
\* 1 December 2026
NowArgs ==
    {Timestamp([year |-> 2026, month |-> 11, day |-> 4]),
     Timestamp([year |-> 2026, month |-> 12, day |-> 1]) + 2}

FuturePriceArgs == {Int2Num(40000), Int2Num(50000), Int2Num(100000)}

YearsAheadArgs == {1, 2}

\* a call of the analyzer, its outcome and the readings of the clock it took
AnalyzerCall(op, arg, out, reads) == [op |-> op, arg |-> arg, out |-> out, reads |-> reads]

\* the analyzer is constructed on a frame of at most n bonds
Constructed(n) ==
    /\ calc = LiquidationCalculator(Int2Num(447470), Int2Num(100000), Int2Num(8214), Zero)
    /\ calc0 = calc
    /\ ret = Call("__init__", None, Ok(None))
    /\ sweep = NoSweep
    /\ doc = NoDoc
    /\ \E k \in 0..n : \E df \in ScheduledFrames(k) :
          /\ parsed = Ok(df)
          /\ analyzer = MaturityAnalyzer(df)
    /\ now \in NowArgs
    /\ prev = NoCall

InitMaturity == Constructed(MaxScheduled)

\* the clock advances
Tick ==
    /\ \E t \in NowArgs : t > now /\ now' = t
    /\ UNCHANGED <<calc, calc0, ret, sweep, doc, parsed, analyzer, prev>>

\* the instants the clock can read from now on
Later == {t \in NowArgs : t >= now}

\* the call made leaves everything but ret, now and prev as it is; prev
\* keeps the call before it if history is kept
Called(history) ==
    /\ prev' = IF history THEN ret ELSE prev
    /\ UNCHANGED <<calc, calc0, sweep, doc, parsed, analyzer>>

Do_get_maturity_schedule(history) ==
    /\ \E t \in Later :
          /\ ret' = AnalyzerCall("get_maturity_schedule", None,
                                 Ok(get_maturity_schedule(analyzer, t)), <<t>>)
          /\ now' = t
    /\ Called(history)

\* faulty variant (sensitivity of C23): the 'Maturity Year' column is
\* added to the stored table instead of to a copy
Do_calculate_maturity_wall_in_place(history) ==
    /\ \E t \in Later :
          /\ ret' = AnalyzerCall("calculate_maturity_wall", None,
                                 Ok(calculate_maturity_wall(analyzer, t)), <<t>>)
          /\ now' = t
    /\ analyzer' =
          [analyzer EXCEPT
              !.debt_df = [columns |-> analyzer.debt_df.columns \o <<"Maturity Year">>,
                           rows    |-> [r \in DOMAIN analyzer.debt_df.rows |->
                                           analyzer.debt_df.rows[r] \o
                                           <<Column(analyzer.debt_df, "Maturity")[r]>>]]]
    /\ prev' = IF history THEN ret ELSE prev
    /\ UNCHANGED <<calc, calc0, sweep, doc, parsed>>

Do_calculate_maturity_wall(history) ==
    /\ \E t \in Later :
          /\ ret' = AnalyzerCall("calculate_maturity_wall", None,
                                 Ok(calculate_maturity_wall(analyzer, t)), <<t>>)
          /\ now' = t
    /\ Called(history)

Do_assess_refinancing_risk(history) ==
    /\ \E p \in FuturePriceArgs, t \in Later :
          /\ ret' = AnalyzerCall("assess_refinancing_risk", p,
                                 Ok(assess_refinancing_risk(analyzer, p, t)), <<t>>)
          /\ now' = t
    /\ Called(history)

Do_calculate_rollover_requirement(history) ==
    /\ \E y \in YearsAheadArgs, t1 \in Later :
          \E t2 \in {t \in Later : t >= t1} :
              /\ ret' = AnalyzerCall("calculate_rollover_requirement", y,
                                     calculate_rollover_requirement(analyzer, y, t1, t2),
                                     <<t1, t2>>)
              /\ now' = t2
    /\ Called(history)

Call_get_maturity_schedule == Do_get_maturity_schedule(FALSE)

Call_calculate_maturity_wall == Do_calculate_maturity_wall(FALSE)

Call_assess_refinancing_risk == Do_assess_refinancing_risk(FALSE)

Call_calculate_rollover_requirement == Do_calculate_rollover_requirement(FALSE)

NextMaturity ==
    \/ Tick
    \/ Call_get_maturity_schedule
    \/ Call_calculate_maturity_wall
    \/ Call_assess_refinancing_risk
    \/ Call_calculate_rollover_requirement

SpecMaturity == InitMaturity /\ [][NextMaturity]_vars

-----------------------------------------------------------------------------
(* The same callers, keeping the call made before the last one             *)

InitRuns == Constructed(MaxBonds)

Again_get_maturity_schedule == Do_get_maturity_schedule(TRUE)

Again_calculate_maturity_wall == Do_calculate_maturity_wall(TRUE)

Again_assess_refinancing_risk == Do_assess_refinancing_risk(TRUE)

Again_calculate_rollover_requirement == Do_calculate_rollover_requirement(TRUE)

NextRuns ==
    \/ Tick
    \/ Again_get_maturity_schedule
    \/ Again_calculate_maturity_wall
    \/ Again_assess_refinancing_risk
    \/ Again_calculate_rollover_requirement

SpecMaturityRuns == InitRuns /\ [][NextRuns]_vars

-----------------------------------------------------------------------------
(* The same callers on a table in which bonds may share a name             *)

\* df with the rows in shared named as its first row is
Renamed(df, shared) ==
    LET k == ColumnIndex(df, "Name")
    IN  [df EXCEPT !.rows = [r \in DOMAIN df.rows |->
                               IF r \in shared
                               THEN [df.rows[r] EXCEPT ![k] = df.rows[1][k]]
                               ELSE df.rows[r]]]

InitShared ==
    /\ calc = LiquidationCalculator(Int2Num(447470), Int2Num(100000), Int2Num(8214), Zero)
    /\ calc0 = calc
    /\ ret = Call("__init__", None, Ok(None))
    /\ sweep = NoSweep
    /\ doc = NoDoc
    /\ \E k \in 0..MaxBonds : \E df \in ScheduledFrames(k) : \E shared \in SUBSET (2..k) :
          /\ parsed = Ok(Renamed(df, shared))
          /\ analyzer = MaturityAnalyzer(Renamed(df, shared))
    /\ now \in NowArgs
    /\ prev = NoCall

SpecShared == InitShared /\ [][NextMaturity]_vars

-----------------------------------------------------------------------------
(* Claims about the analyzer                                               *)

\* the rows of a frame whose maturity is absent
WithoutMaturity(df) == {r \in DOMAIN df.rows : IsNone(Column(df, "Maturity")[r])}

\* the rows with a maturity come in ascending order of it
AscendingMaturities(df) ==
    \A r, q \in DOMAIN df.rows \ WithoutMaturity(df) :
        r < q => Timestamp(Column(df, "Maturity")[r]) <= Timestamp(Column(df, "Maturity")[q])

\* C14: the schedule get_maturity_schedule returns is in ascending order of
\* maturity date and has no entry without one, so that neither the maturity
\* wall, nor the rollover requirement, nor the refinancing risk counts a
\* bond whose maturity is absent.
C14_ScheduleSortedWithoutAbsentMaturities ==
    /\ ret.op = "get_maturity_schedule" =>
          AscendingMaturities(ret.out.v) /\ WithoutMaturity(ret.out.v) = {}
    /\ ret.op = "assess_refinancing_risk" => WithoutMaturity(ret.out.v) = {}
    /\ ret.op = "calculate_maturity_wall" =>
          \A i \in DOMAIN ret.out.v :
              ret.out.v[i].number =
                  Cardinality({r \in DOMAIN parsed.v.rows \ WithoutMaturity(parsed.v) :
                                  Column(parsed.v, "Maturity")[r].year = ret.out.v[i].year})
    /\ (ret.op = "calculate_rollover_requirement" /\ ret.out.ok) =>
          ret.out.v.number_of_bonds
              <= Cardinality(DOMAIN parsed.v.rows \ WithoutMaturity(parsed.v))

\* what does hold of the schedule: it has every bond of the frame once, the
\* dated ones first and in ascending order of maturity
ScheduleIsTheSortedFrame ==
    ret.op = "get_maturity_schedule" =>
        /\ AscendingMaturities(ret.out.v)
        /\ Len(ret.out.v.rows) = Len(parsed.v.rows)
        /\ Range(Column(ret.out.v, "Name")) = Range(Column(parsed.v, "Name"))
        /\ \A r \in WithoutMaturity(ret.out.v) : \A q \in DOMAIN ret.out.v.rows :
              q > r => q \in WithoutMaturity(ret.out.v)

\* the names of the bonds a rollover call counted
Counted(call) ==
    LET schedule == get_maturity_schedule(analyzer, call.reads[1])
    IN  {Column(schedule, "Name")[r] : r \in MaturingSoon(schedule, call.arg, call.reads[2])}

\* the last two calls were rollover calls that returned
TwoRollovers ==
    /\ prev.op = "calculate_rollover_requirement"
    /\ ret.op = "calculate_rollover_requirement"
    /\ prev.out.ok
    /\ ret.out.ok

\* the rollover call a looks no further ahead than b and counts no more
NoMoreThan(a, b) ==
    a.arg <= b.arg =>
        /\ Le(a.out.v.total_maturing, b.out.v.total_maturing)
        /\ Counted(a) \subseteq Counted(b)

\* C15: for two rollover calls on the same portfolio with y1 <= y2, made in
\* either order, total_maturing for y1 is at most that for y2 and the bonds
\* counted for y1 are among those counted for y2.
C15_RolloverMonotonicInYearsAhead ==
    TwoRollovers => NoMoreThan(prev, ret) /\ NoMoreThan(ret, prev)

\* what does hold: two rollover calls that read the same instant off the
\* clock are monotonic in years_ahead
RolloverMonotonicAtOneInstant ==
    (TwoRollovers /\ prev.reads[2] = ret.reads[2])
        => NoMoreThan(prev, ret) /\ NoMoreThan(ret, prev)

AbsNum(a) == [a EXCEPT !.n = Abs(a.n)]

\* the rows of the frame maturing in the year
MaturingIn(df, year) ==
    {r \in DOMAIN df.rows \ WithoutMaturity(df) : Column(df, "Maturity")[r].year = year}

\* the sum of the notionals of the dated bonds of the frame
DatedNotional(df) ==
    SumPresent(Only(Column(df, "Notional ($M)"), DOMAIN df.rows \ WithoutMaturity(df)))

\* the percentages of the wall are numbers that sum to 100 within 0.05 for
\* each year, and each year has the notional and the number of its bonds
WallAddsUp(wall, df) ==
    /\ \A i \in DOMAIN wall : ~IsSpecial(wall[i].percentage)
    /\ Le(AbsNum(Sub(SumPresent([i \in DOMAIN wall |-> wall[i].percentage]), Hundred)),
          Mul(Num(5, 1, -2), Int2Num(Len(wall))))
    /\ \A i \in DOMAIN wall :
          /\ wall[i].notional =
                 SumPresent(Only(Column(df, "Notional ($M)"), MaturingIn(df, wall[i].year)))
          /\ wall[i].number = Cardinality(MaturingIn(df, wall[i].year))

\* C16 as stated: for every schedule, the 'Percentage of Total' values of
\* the maturity wall sum to 100.0 within 0.05 per year, each year's total
\* is the sum of the notionals of the bonds maturing in it and its count
\* their number.
C16_WallPercentagesSumTo100 ==
    ret.op = "calculate_maturity_wall" => WallAddsUp(ret.out.v, parsed.v)

\* C16 amended: the same for every schedule whose dated bonds have a
\* positive total notional (with none, or a total of zero, there is no
\* percentage to add up).
C16_WallPercentagesSumTo100OfAPositiveTotal ==
    (ret.op = "calculate_maturity_wall" /\ Positive(DatedNotional(parsed.v)))
        => WallAddsUp(ret.out.v, parsed.v)

\* a wall of three years whose rounded percentages do not sum to 100.0
C16_Witness ==
    /\ ret.op = "calculate_maturity_wall"
    /\ Len(ret.out.v) = 3
    /\ Positive(DatedNotional(parsed.v))
    /\ SumPresent([i \in DOMAIN ret.out.v |-> ret.out.v[i].percentage]) # Hundred

\* C17: assess_refinancing_risk(price) gives a bond the status "converts"
\* and cash requirement 0 exactly when its conversion price is present and
\* price > 50,000; otherwise (no conversion price, or price <= 50,000) the
\* status "needs refinancing" and its notional as cash requirement.
C17_InTheMoneyIffConversionPriceAndAbove50000 ==
    ret.op = "assess_refinancing_risk" =>
        \A r \in DOMAIN ret.out.v.rows :
            LET row  == ret.out.v.rows[r]
                bond == CHOOSE b \in DOMAIN parsed.v.rows :
                            Column(parsed.v, "Name")[b] = row[1]
            IN  IF /\ NotNa(Column(parsed.v, "Conversion Price")[bond])
                   /\ Lt(Int2Num(50000), ret.arg)
                THEN row[4] = Text("Likely Converts") /\ row[5] = Zero
                ELSE /\ row[4] = Text("Needs Refinancing")
                     /\ row[5] = Column(parsed.v, "Notional ($M)")[bond]

\* at a price of exactly 50,000 a bond with a conversion price and a
\* positive notional needs refinancing in full
C17_Witness ==
    /\ ret.op = "assess_refinancing_risk"
    /\ ret.arg = Int2Num(50000)
    /\ \E r \in DOMAIN ret.out.v.rows :
          /\ NotNa(Lookup(parsed.v, ret.out.v.rows[r][1], "Conversion Price"))
          /\ ret.out.v.rows[r][4] = Text("Needs Refinancing")
          /\ Positive(ret.out.v.rows[r][5])

\* C18: the maturity computations are functions of their inputs and of a
\* 'now' given to the analyzer: two calls of get_maturity_schedule,
\* calculate_rollover_requirement(y) or assess_refinancing_risk(p) on the
\* same analyzer with the same argument return the same, and within one
\* rollover call the schedule and the cutoff use one reading of the clock.
C18_MaturityComputationsDeterministic ==
    /\ (/\ ret.op \in {"get_maturity_schedule", "calculate_rollover_requirement",
                       "assess_refinancing_risk"}
        /\ prev.op = ret.op
        /\ prev.arg = ret.arg) => prev.out = ret.out
    /\ ret.op = "calculate_rollover_requirement" => ret.reads[1] = ret.reads[2]

\* what does hold: two calls that read the same instant return the same
SameInstantSameResult ==
    (prev.op = ret.op /\ prev.op # "none" /\ prev.arg = ret.arg /\ prev.reads = ret.reads)
        => prev.out = ret.out


-----------------------------------------------------------------------------
(* Claims about the stress table and the margin of safety                  *)

\* config.py: the cut points of the risk bands
RISK_THRESHOLDS ==
    [safe_ltv    |-> Num(50, 1, -2),
     caution_ltv |-> Num(65, 1, -2),
     warning_ltv |-> Num(85, 1, -2),
     danger_ltv  |-> Num(85, 1, -2)]

\* config.py: the multipliers of the stress scenarios, in their order
STRESS_TEST_SCENARIOS ==
    <<One, Num(8, 1, -1), Num(7, 1, -1), Num(6, 1, -1), Num(5, 1, -1),
      Num(4, 1, -1), Num(3, 1, -1)>>

\* the first band of the ascending table whose cut point exceeds the ltv
Band(ltv) ==
    IF Lt(ltv, RISK_THRESHOLDS.safe_ltv) THEN "Safe"
    ELSE IF Lt(ltv, RISK_THRESHOLDS.caution_ltv) THEN "Caution"
    ELSE IF Lt(ltv, RISK_THRESHOLDS.warning_ltv) THEN "Warning"
    ELSE "Danger"

\* total_debt / (btc_holdings * price), for nonzero holdings and price
LtvAt(price) == Mul(calc.total_debt, Inv(Mul(calc.btc_holdings, price)))

\* the seven results of the stress table: the k-th at the current price
\* times the k-th multiplier, with the risk band of the LTV at that price
SevenResultsInTheirBands ==
    /\ ret.out.ok
    /\ Len(ret.out.v) = Len(STRESS_TEST_SCENARIOS)
    /\ \A k \in DOMAIN STRESS_TEST_SCENARIOS :
          LET price == Mul(calc.btc_price, STRESS_TEST_SCENARIOS[k])
              row   == ret.out.v[k]
          IN  /\ row.BTCPrice = RoundTo(price, 0)
              /\ row.LTVRatio = RoundTo(Mul(LtvAt(price), Hundred), 2)
              /\ row.Status = Band(LtvAt(price))

\* C19: on a state with holdings > 0 and price > 0 stress_test_scenarios
\* returns one result per multiplier 1.00, 0.80, 0.70, 0.60, 0.50, 0.40,
\* 0.30 in that order, each at the current price times the multiplier and
\* with the risk band of its LTV: below 0.50 safe, below 0.65 caution,
\* below 0.85 warning, otherwise danger.
C19_StressTableOrderAndBands ==
    (/\ ret.op = "stress_test_scenarios"
     /\ Positive(calc.btc_holdings)
     /\ Positive(calc.btc_price)) => SevenResultsInTheirBands

\* what does hold: the same for a state that has debt
StressTableOfAnIndebtedState ==
    (/\ ret.op = "stress_test_scenarios"
     /\ Positive(calc.btc_holdings)
     /\ Positive(calc.btc_price)
     /\ Positive(calc.total_debt)) => SevenResultsInTheirBands

\* a result with an LTV of exactly the cut point is in the band above it
CutPointReached(ltv, status) ==
    /\ ret.op = "stress_test_scenarios"
    /\ ret.out.ok
    /\ \E k \in DOMAIN STRESS_TEST_SCENARIOS :
          /\ LtvAt(Mul(calc.btc_price, STRESS_TEST_SCENARIOS[k])) = ltv
          /\ ret.out.v[k].Status = status

\* C20: with holdings > 0, price > 0 and target_ltv in (0, 1]
\* calculate_margin_of_safety(target_ltv) returns, without raising,
\* price_drop = current price - liquidation price(target_ltv), negative
\* exactly when the current LTV exceeds target_ltv, zero exactly when the
\* two are equal, positive otherwise, and price_drop_percent has its sign.
C20_MarginSignFollowsLtvAgainstTarget ==
    (/\ ret.op = "calculate_margin_of_safety"
     /\ Positive(calc.btc_holdings)
     /\ Positive(calc.btc_price)
     /\ Positive(ret.arg)
     /\ Le(ret.arg, One)) =>
        /\ ret.out.ok
        /\ ret.out.v.price_drop_dollars =
               Sub(calc.btc_price,
                   Mul(calc.total_debt, Inv(Mul(calc.btc_holdings, ret.arg))))
        /\ Sign(ret.out.v.price_drop_dollars) = Sign(Sub(ret.arg, LtvAt(calc.btc_price)))
        /\ Sign(ret.out.v.price_drop_percent) = Sign(ret.out.v.price_drop_dollars)

\* a margin of safety already breached: the LTV above the target, the drop
\* negative
C20_Witness ==
    /\ ret.op = "calculate_margin_of_safety"
    /\ Positive(calc.btc_holdings)
    /\ Positive(calc.btc_price)
    /\ Positive(ret.arg)
    /\ Le(ret.arg, One)
    /\ ret.out.ok
    /\ Lt(ret.arg, LtvAt(calc.btc_price))
    /\ Sign(ret.out.v.price_drop_dollars) = -1

\* the LTV exactly at the target: no drop left
MarginExhausted ==
    /\ ret.op = "calculate_margin_of_safety"
    /\ ret.out.ok
    /\ Positive(ret.arg)
    /\ ret.out.v.current_ltv = ret.arg
    /\ IsZero(ret.out.v.price_drop_dollars)


-----------------------------------------------------------------------------
(* Claims about the exits of the sweep and about the analyzer's tables     *)

\* create_ltv_heatmap has left: returned its figure, or raised
Exited(s) == s.pc \in {"done", "raised"}

\* C21: on every exit of create_ltv_heatmap, its return and an exception
\* of calculate_ltv_ratio part-way through the sweep alike, calc.total_debt
\* is what it was before the call, so that no later call on the calculator
\* sees a debt scaled by a multiplier of the sweep.
C21_DebtRestoredOnEveryExit ==
    Exited(sweep["t1"]) =>
        /\ calc.total_debt = calc0.total_debt
        /\ ret.op = "calculate_ltv_ratio" => ret.out = calculate_ltv_ratio(calc0, ret.arg)

\* what does hold: the debt is restored when the function returns, and
\* holdings of zero do not make the sweep raise (its cells are inf or nan)
DebtRestoredOnReturn ==
    /\ sweep["t1"].pc = "done" => calc.total_debt = calc0.total_debt
    /\ sweep["t1"].pc = "raised" => IsNone(calc.btc_holdings)

\* a sweep over holdings of zero that has returned
ZeroHoldingsSweepReturns ==
    /\ sweep["t1"].pc = "done"
    /\ IsZero(calc.btc_holdings)
    /\ \E c \in DOMAIN sweep["t1"].ltv_matrix : sweep["t1"].ltv_matrix[c] = Inf


\* the bonds of the table that need refinancing at the price: those
\* without a conversion price, and all of them at a price of 50,000 or less
NeedsRefinancing(df, price) ==
    {b \in DOMAIN df.rows :
        ~(NotNa(Column(df, "Conversion Price")[b]) /\ Lt(Int2Num(50000), price))}

\* C22: assess_refinancing_risk returns one row per bond of the schedule,
\* and its cash requirements sum to the total notional of the bonds that
\* need refinancing, also when bonds share a Name.
C22_OneRowPerBondAndCashIsTheirNotional ==
    ret.op = "assess_refinancing_risk" =>
        /\ Len(ret.out.v.rows) = Len(parsed.v.rows)
        /\ SumPresent(Column(ret.out.v, "Cash Requirement ($M)")) =
               SumPresent(Only(Column(parsed.v, "Notional ($M)"),
                               NeedsRefinancing(parsed.v, ret.arg)))

\* the names of the table are all different
DistinctNames(df) ==
    \A a, b \in DOMAIN df.rows :
        Column(df, "Name")[a] = Column(df, "Name")[b] => a = b

\* what does hold: the same for a table whose bonds have different names
OneRowPerBondOfDistinctNames ==
    (ret.op = "assess_refinancing_risk" /\ DistinctNames(parsed.v)) =>
        /\ Len(ret.out.v.rows) = Len(parsed.v.rows)
        /\ SumPresent(Column(ret.out.v, "Cash Requirement ($M)")) =
               SumPresent(Only(Column(parsed.v, "Notional ($M)"),
                               NeedsRefinancing(parsed.v, ret.arg)))


\* the result of the call made, had it been made on an analyzer newly
\* constructed on the table df, the clock reading as it did
OnANewAnalyzer(call, df) ==
    LET fresh == MaturityAnalyzer(df)
    IN  CASE call.op = "get_maturity_schedule" ->
                 Ok(get_maturity_schedule(fresh, call.reads[1]))
          [] call.op = "calculate_maturity_wall" ->
                 Ok(calculate_maturity_wall(fresh, call.reads[1]))
          [] call.op = "assess_refinancing_risk" ->
                 Ok(assess_refinancing_risk(fresh, call.arg, call.reads[1]))
          [] call.op = "calculate_rollover_requirement" ->
                 calculate_rollover_requirement(fresh, call.arg, call.reads[1], call.reads[2])

\* C23: whatever calls of get_maturity_schedule, calculate_maturity_wall,
\* assess_refinancing_risk and calculate_rollover_requirement are made on
\* an analyzer, in any order, each leaves the caller's table and the
\* analyzer's stored table as they were, with the columns of the bond
\* table, and returns what a newly constructed analyzer would return: no
\* column added for one result shows in the stored table or a later result.
C23_CallsLeaveTheTablesUnchanged ==
    [][/\ parsed' = parsed
       /\ analyzer' = analyzer
       /\ analyzer'.debt_df.columns = Columns
       /\ ret' # ret => ret'.out = OnANewAnalyzer(ret', parsed.v)]_vars

\* a schedule asked for after a maturity wall, on a table of two bonds
C23_Witness ==
    /\ prev.op = "calculate_maturity_wall"
    /\ ret.op = "get_maturity_schedule"
    /\ Len(parsed.v.rows) = 2
    /\ ret.out.v.columns = ScheduleColumns
    /\ analyzer.debt_df.columns = Columns

=============================================================================
